---- MODULE Spec2Model ----
(***************************************************************************)
(* Board detection of Adafruit_GPIO/Platform.py: platform_detect,          *)
(* pi_revision and pi_version, run once against a host environment         *)
(* (/proc/cpuinfo, platform.platform(), the optional mraa library).        *)
(*                                                                         *)
(* A Python str is a sequence of one-character strings, so that lower(),   *)
(* splitlines(), `in` and re.match are computed character by character.    *)
(***************************************************************************)
EXTENDS Integers, Sequences, FiniteSets, TLC

\* ---------------------------------------------------------------- bounds
\* Largest number of lines of /proc/cpuinfo in the environments explored.
MaxLines == 2

\* ------------------------------------------- platform identification constants
UNKNOWN == 0
RASPBERRY_PI == 1
BEAGLEBONE_BLACK == 2
MINNOWBOARD == 3

\* platform_detect has not returned a value (yet, or at all).
NoResult == -1

\* Python's None as the value of pi_version; the table's labels 1..5 are
\* written "1".."5" so that every label is a string.
None == "None"

\* No revision token extracted; re.match found no match.  The group (\w+)
\* is never empty, so the empty string is free to stand for both.
NoMatch == << >>

\* ------------------------------------------------------------ str methods
UpperCase == <<"A", "B", "C", "D", "E", "F", "G", "H", "I", "J", "K", "L", "M", "N", "O", "P", "Q", "R", "S", "T", "U", "V", "W", "X", "Y", "Z">>
LowerCase == <<"a", "b", "c", "d", "e", "f", "g", "h", "i", "j", "k", "l", "m", "n", "o", "p", "q", "r", "s", "t", "u", "v", "w", "x", "y", "z">>
Digits == {"0", "1", "2", "3", "4", "5", "6", "7", "8", "9"}

Range(s) == {s[i] : i \in 1..Len(s)}

\* str.lower() of one character
lower_char(c) ==
    IF \E i \in 1..26 : UpperCase[i] = c
    THEN LowerCase[CHOOSE i \in 1..26 : UpperCase[i] = c]
    ELSE c

\* str.lower()
lower(s) == [i \in 1..Len(s) |-> lower_char(s[i])]

\* sub in s
contains(s, sub) ==
    \E i \in 1..(Len(s) - Len(sub) + 1) : SubSeq(s, i, i + Len(sub) - 1) = sub

\* index of the first "\n" of text, Len(text)+1 when there is none
LineEnd(text) ==
    IF \E i \in 1..Len(text) : text[i] = "\n"
    THEN CHOOSE i \in 1..Len(text) :
             text[i] = "\n" /\ \A j \in 1..(i - 1) : text[j] # "\n"
    ELSE Len(text) + 1

\* str.splitlines() for texts whose only line boundary is "\n"
RECURSIVE splitlines(_)
splitlines(text) ==
    IF text = << >> THEN << >>
    ELSE LET k == LineEnd(text)
         IN  <<SubSeq(text, 1, k - 1)>> \o splitlines(SubSeq(text, k + 1, Len(text)))

\* ------------------------------------------------------------ the regex
\* \s and \w of the re module, on the characters of the environments
IsSpace(c) == c \in {" ", "\t", "\n"}
IsWord(c) == c \in Range(UpperCase) \cup Range(LowerCase) \cup Digits \cup {"_"}

\* length of the longest run of whitespace / word characters of s from i on
RECURSIVE SpaceRun(_, _)
SpaceRun(s, i) == IF i <= Len(s) /\ IsSpace(s[i]) THEN 1 + SpaceRun(s, i + 1) ELSE 0
RECURSIVE WordRun(_, _)
WordRun(s, i) == IF i <= Len(s) /\ IsWord(s[i]) THEN 1 + WordRun(s, i + 1) ELSE 0

\* re.match(r'Revision\s+:\s+(\w+)', line, flags=re.IGNORECASE): group 1 of
\* the match anchored at the start of line, NoMatch when there is none.
\* Whitespace, ":" and word characters are disjoint, so the greedy runs
\* never need to give a character back.
re_match(line) ==
    LET label == <<"r", "e", "v", "i", "s", "i", "o", "n">>
        n     == Len(label)
        s1    == SpaceRun(line, n + 1)
        colon == n + 1 + s1
        s2    == SpaceRun(line, colon + 1)
        first == colon + 1 + s2
        w     == WordRun(line, first)
    IN  IF /\ Len(line) >= n
           /\ lower(SubSeq(line, 1, n)) = label
           /\ s1 >= 1
           /\ colon <= Len(line)
           /\ line[colon] = ":"
           /\ s2 >= 1
           /\ w >= 1
        THEN SubSeq(line, first, first + w - 1)
        ELSE NoMatch

\* ------------------------------------------------------ the revision table
pi_revisions ==
    <<"0", "0", "0", "2">> :> "1" @@
    <<"0", "0", "0", "3">> :> "1" @@
    <<"0", "0", "0", "4">> :> "1" @@
    <<"0", "0", "0", "5">> :> "1" @@
    <<"0", "0", "0", "6">> :> "1" @@
    <<"0", "0", "0", "7">> :> "1" @@
    <<"0", "0", "0", "8">> :> "1" @@
    <<"0", "0", "0", "9">> :> "1" @@
    <<"0", "0", "0", "d">> :> "1" @@
    <<"0", "0", "0", "e">> :> "1" @@
    <<"0", "0", "0", "f">> :> "1" @@
    <<"0", "0", "1", "0">> :> "1" @@
    <<"0", "0", "1", "1">> :> "1" @@
    <<"0", "0", "1", "2">> :> "1" @@
    <<"0", "0", "1", "3">> :> "1" @@
    <<"0", "0", "1", "4">> :> "1" @@
    <<"0", "0", "1", "5">> :> "1" @@
    <<"a", "0", "1", "0", "4", "1">> :> "2" @@
    <<"a", "2", "1", "0", "4", "1">> :> "2" @@
    <<"a", "2", "2", "0", "4", "2">> :> "2" @@
    <<"a", "0", "2", "0", "8", "2">> :> "3" @@
    <<"a", "2", "2", "0", "8", "2">> :> "3" @@
    <<"a", "3", "2", "0", "8", "2">> :> "3" @@
    <<"a", "0", "2", "0", "d", "3">> :> "3" @@
    <<"9", "0", "2", "0", "e", "0">> :> "3" @@
    <<"a", "0", "3", "1", "1", "1">> :> "4" @@
    <<"b", "0", "3", "1", "1", "1">> :> "4" @@
    <<"b", "0", "3", "1", "1", "2">> :> "4" @@
    <<"c", "0", "3", "1", "1", "1">> :> "4" @@
    <<"c", "0", "3", "1", "1", "2">> :> "4" @@
    <<"a", "0", "3", "1", "4", "0">> :> "4" @@
    <<"a", "0", "2", "0", "a", "0">> :> "4" @@
    <<"9", "0", "2", "3", "e", "0">> :> "5" @@
    <<"9", "0", "0", "0", "9", "2">> :> "Zero" @@
    <<"9", "0", "0", "0", "9", "3">> :> "Zero" @@
    <<"9", "0", "0", "0", "c", "1">> :> "Zero" @@
    <<"9", "0", "2", "1", "2", "0">> :> "Zero 2 W" @@
    <<"e", "3", "1", "a">> :> "Pico" @@
    <<"e", "3", "1", "b">> :> "Pico" @@
    <<"e", "3", "1", "c">> :> "Pico"
\* dict.get(key, default)
get(d, key, default) == IF key \in DOMAIN d THEN d[key] ELSE default

\* -------------------------------------------------------- the environments
\* Lines /proc/cpuinfo is made of.
CpuinfoLines ==
    { <<"p", "r", "o", "c", "e", "s", "s", "o", "r", "\t", ":", " ", "0">>,
      <<"R", "e", "v", "i", "s", "i", "o", "n", "\t", ":", " ", "a", "0", "2", "0", "d", "3">>,
      <<"R", "e", "v", "i", "s", "i", "o", "n", "\t", ":", " ", "A", "0", "2", "0", "D", "3">>,
      <<"R", "E", "V", "I", "S", "I", "O", "N", " ", " ", ":", " ", " ", "0", "0", "0", "d">>,
      <<"R", "e", "v", "i", "s", "i", "o", "n", " ", ":", " ", "f", "f", "f", "f">>,
      <<"R", "e", "v", "i", "s", "i", "o", "n", ":", " ", "e", "3", "1", "b">>,
      <<"R", "e", "v", "i", "s", "i", "o", "n", " ", ":", " ", "e", "3", "1", "b", "-", "x">> }

RECURSIVE TextsOfLines(_)
TextsOfLines(n) ==
    IF n = 0 THEN {<< >>}
    ELSE {l \o <<"\n">> \o t : l \in CpuinfoLines, t \in TextsOfLines(n - 1)}

\* /proc/cpuinfo: absent (open fails), present but failing during read(),
\* or readable with a text of at most MaxLines lines.
CpuinfoFiles ==
    {[state |-> "missing", text |-> << >>], [state |-> "ioerror", text |-> << >>]}
    \cup {[state |-> "ok", text |-> t] : t \in UNION {TextsOfLines(n) : n \in 0..MaxLines}}

\* Values of platform.platform().
Architectures == { <<"a", "r", "m", "v", "7", "l">>, <<"A", "R", "M", "v", "7", "l">>, <<"x", "8", "6", "_", "6", "4">> }
Distributions == { <<"d", "e", "b", "i", "a", "n", "-", "1", "0", ".", "3">>, <<"U", "b", "u", "n", "t", "u", "-", "2", "0", ".", "0", "4">>, <<"g", "l", "i", "b", "c", "2", ".", "4">>, <<"g", "l", "i", "b", "c", "2", ".", "3", "1">> }
PlatformStrings ==
    { <<"L", "i", "n", "u", "x", "-", "5", ".", "4", ".", "0", "-">> \o a \o <<"-", "w", "i", "t", "h", "-">> \o d : a \in Architectures, d \in Distributions}

\* The mraa library: not installed, or installed and reporting a name.
MraaLibraries ==
    {[installed |-> FALSE, name |-> << >>]}
    \cup {[installed |-> TRUE, name |-> nm] :
            nm \in { <<"M", "i", "n", "n", "o", "w", "B", "o", "a", "r", "d", " ", "M", "A", "X">>, <<"m", "i", "n", "n", "o", "w", "b", "o", "a", "r", "d", " ", "m", "a", "x">>,
                     <<"M", "i", "n", "n", "o", "w", "B", "o", "a", "r", "d", " ", "T", "u", "r", "b", "o", "t">> }}

\* ------------------------------------------------------------------ state
VARIABLES
    proc_cpuinfo,   \* the file /proc/cpuinfo of the host
    plat,           \* what platform.platform() returns on the host
    mraa,           \* the mraa library of the host
    pc,             \* position of the call of platform_detect
    infile,         \* handle opened by pi_revision: "none", "open", "closed"
    lines,          \* cpuinfo.splitlines() in pi_revision
    idx,            \* index in lines of the line the for loop is at
    revision,       \* value returned by pi_revision
    pi,             \* value returned by pi_version
    result,         \* value returned by platform_detect
    exc,            \* exception that ended the call, "none" if none
    probed          \* the probes attempted so far, in order

env == <<proc_cpuinfo, plat, mraa>>
vars == <<proc_cpuinfo, plat, mraa, pc, infile, lines, idx, revision, pi,
          result, exc, probed>>

Init ==
    /\ proc_cpuinfo \in CpuinfoFiles
    /\ plat \in PlatformStrings
    /\ mraa \in MraaLibraries
    /\ pc = "platform_detect"
    /\ infile = "none"
    /\ lines = << >>
    /\ idx = 1
    /\ revision = NoMatch
    /\ pi = None
    /\ result = NoResult
    /\ exc = "none"
    /\ probed = << >>

\* An exception nothing catches: pi_version and platform_detect have no
\* handler around the calls of pi_revision and pi_version, so it ends the
\* call of platform_detect.
Propagate(e) ==
    /\ exc' = e
    /\ pc' = "done"
    /\ result' = NoResult

\* return value of platform_detect
Return(v) ==
    /\ result' = v
    /\ pc' = "done"
    /\ exc' = "none"

\* platform_detect calls pi_version, which calls pi_revision.
platform_detect_call ==
    /\ pc = "platform_detect"
    /\ pc' = "open"
    /\ probed' = Append(probed, "raspberry_pi")
    /\ UNCHANGED <<env, infile, lines, idx, revision, pi, result, exc>>

\* with open('/proc/cpuinfo', 'r') as infile
pi_revision_open ==
    /\ pc = "open"
    /\ IF proc_cpuinfo.state = "missing"
       THEN /\ Propagate("FileNotFoundError")
            /\ UNCHANGED infile
       ELSE /\ infile' = "open"
            /\ pc' = "read"
            /\ UNCHANGED <<result, exc>>
    /\ UNCHANGED <<env, lines, idx, revision, pi, probed>>

\* cpuinfo = infile.read(), then the for loop starts on cpuinfo.splitlines();
\* an error during the read leaves the with block, which closes infile.
pi_revision_read ==
    /\ pc = "read"
    /\ IF proc_cpuinfo.state = "ioerror"
       THEN /\ infile' = "closed"
            /\ Propagate("OSError")
            /\ UNCHANGED <<lines, idx>>
       ELSE /\ lines' = splitlines(proc_cpuinfo.text)
            /\ idx' = 1
            /\ pc' = "scan"
            /\ UNCHANGED <<infile, result, exc>>
    /\ UNCHANGED <<env, revision, pi, probed>>

\* Mutant: the first match is remembered and the loop goes on, so that a
\* later match replaces it (the last matching line wins).
pi_revision_scan_last ==
    /\ pc = "scan"
    /\ IF idx > Len(lines)
       THEN /\ infile' = "closed"
            /\ IF revision = NoMatch
               THEN /\ Propagate("RuntimeError")
               ELSE /\ pc' = "lookup"
                    /\ UNCHANGED <<result, exc>>
            /\ UNCHANGED <<idx, revision>>
       ELSE /\ revision' = IF re_match(lines[idx]) # NoMatch
                           THEN re_match(lines[idx]) ELSE revision
            /\ idx' = idx + 1
            /\ UNCHANGED <<infile, pc, result, exc>>
    /\ UNCHANGED <<env, lines, pi, probed>>

\* Mutant: the handle is closed on the return path only, as a close() in
\* front of the return would do; the raise leaves it open.
pi_revision_scan_leak ==
    /\ pc = "scan"
    /\ IF idx > Len(lines)
       THEN /\ Propagate("RuntimeError")
            /\ UNCHANGED <<infile, idx, revision>>
       ELSE IF re_match(lines[idx]) # NoMatch
            THEN /\ revision' = re_match(lines[idx])
                 /\ infile' = "closed"
                 /\ pc' = "lookup"
                 /\ UNCHANGED <<idx, result, exc>>
            ELSE /\ idx' = idx + 1
                 /\ UNCHANGED <<infile, revision, pc, result, exc>>
    /\ UNCHANGED <<env, lines, pi, probed>>

\* One turn of `for line in cpuinfo.splitlines()`: the line matches and its
\* token is returned, or the loop moves on; after the last line the
\* RuntimeError is raised.  Both ways out leave the with block, which
\* closes infile.
pi_revision_scan ==
    /\ pc = "scan"
    /\ IF idx > Len(lines)
       THEN /\ infile' = "closed"
            /\ Propagate("RuntimeError")
            /\ UNCHANGED <<idx, revision>>
       ELSE IF re_match(lines[idx]) # NoMatch
            THEN /\ revision' = re_match(lines[idx])
                 /\ infile' = "closed"
                 /\ pc' = "lookup"
                 /\ UNCHANGED <<idx, result, exc>>
            ELSE /\ idx' = idx + 1
                 /\ UNCHANGED <<infile, revision, pc, result, exc>>
    /\ UNCHANGED <<env, lines, pi, probed>>

\* Mutant: pi_revisions[revision] in place of pi_revisions.get(revision, None).
pi_version_lookup_keyerror ==
    /\ pc = "lookup"
    /\ IF revision \in DOMAIN pi_revisions
       THEN /\ pi' = pi_revisions[revision]
            /\ pc' = "pi"
            /\ UNCHANGED <<result, exc>>
       ELSE /\ Propagate("KeyError")
            /\ UNCHANGED pi
    /\ UNCHANGED <<env, infile, lines, idx, revision, probed>>

\* version = pi_revisions.get(revision, None); pi_version returns None or
\* the version to platform_detect.
pi_version_lookup ==
    /\ pc = "lookup"
    /\ pi' = get(pi_revisions, revision, None)
    /\ pc' = "pi"
    /\ UNCHANGED <<env, infile, lines, idx, revision, result, exc, probed>>

\* Mutant: the platform string is looked at before the value of pi_version.
platform_detect_pi_second ==
    /\ pc = "pi"
    /\ IF contains(lower(plat), <<"a", "r", "m", "v", "7", "l", "-", "w", "i", "t", "h", "-", "d", "e", "b", "i", "a", "n">>)
       THEN Return(BEAGLEBONE_BLACK)
       ELSE IF pi # None
            THEN Return(RASPBERRY_PI)
            ELSE /\ pc' = "beaglebone"
                 /\ UNCHANGED <<result, exc>>
    /\ UNCHANGED <<env, infile, lines, idx, revision, pi, probed>>

\* if pi is not None: return RASPBERRY_PI
platform_detect_pi ==
    /\ pc = "pi"
    /\ IF pi # None
       THEN Return(RASPBERRY_PI)
       ELSE /\ pc' = "beaglebone"
            /\ UNCHANGED <<result, exc>>
    /\ UNCHANGED <<env, infile, lines, idx, revision, pi, probed>>

\* Mutant: the platform string is not lower-cased and the glibc test is
\* missing.
is_beaglebone_exact(p) ==
    \/ contains(p, <<"a", "r", "m", "v", "7", "l", "-", "w", "i", "t", "h", "-", "d", "e", "b", "i", "a", "n">>)
    \/ contains(p, <<"a", "r", "m", "v", "7", "l", "-", "w", "i", "t", "h", "-", "u", "b", "u", "n", "t", "u">>)

\* the if / elif / elif on plat.lower()
is_beaglebone(p) ==
    \/ contains(lower(p), <<"a", "r", "m", "v", "7", "l", "-", "w", "i", "t", "h", "-", "d", "e", "b", "i", "a", "n">>)
    \/ contains(lower(p), <<"a", "r", "m", "v", "7", "l", "-", "w", "i", "t", "h", "-", "u", "b", "u", "n", "t", "u">>)
    \/ contains(lower(p), <<"a", "r", "m", "v", "7", "l", "-", "w", "i", "t", "h", "-", "g", "l", "i", "b", "c", "2", ".", "4">>)

\* plat = platform.platform() and the BeagleBone tests
platform_detect_beaglebone ==
    /\ pc = "beaglebone"
    /\ probed' = Append(probed, "beaglebone")
    /\ IF is_beaglebone(plat)
       THEN Return(BEAGLEBONE_BLACK)
       ELSE /\ pc' = "minnowboard"
            /\ UNCHANGED <<result, exc>>
    /\ UNCHANGED <<env, infile, lines, idx, revision, pi>>

\* mraa.getPlatformName() == 'MinnowBoard MAX'
is_minnowboard(name) == name = <<"M", "i", "n", "n", "o", "w", "B", "o", "a", "r", "d", " ", "M", "A", "X">>

\* Mutant: no except clause around import mraa.
platform_detect_minnowboard_uncaught ==
    /\ pc = "minnowboard"
    /\ probed' = Append(probed, "minnowboard")
    /\ IF ~mraa.installed
       THEN Propagate("ImportError")
       ELSE IF is_minnowboard(mraa.name)
            THEN Return(MINNOWBOARD)
            ELSE Return(UNKNOWN)
    /\ UNCHANGED <<env, infile, lines, idx, revision, pi>>

\* try: import mraa ... except ImportError: pass, then return UNKNOWN
platform_detect_minnowboard ==
    /\ pc = "minnowboard"
    /\ probed' = Append(probed, "minnowboard")
    /\ IF mraa.installed /\ is_minnowboard(mraa.name)
       THEN Return(MINNOWBOARD)
       ELSE Return(UNKNOWN)
    /\ UNCHANGED <<env, infile, lines, idx, revision, pi>>

Next ==
    \/ platform_detect_call
    \/ pi_revision_open
    \/ pi_revision_read
    \/ pi_revision_scan
    \/ pi_version_lookup
    \/ platform_detect_pi
    \/ platform_detect_beaglebone
    \/ platform_detect_minnowboard

Spec == Init /\ [][Next]_vars

\* ------------------------------------------------- what the host looks like
\* The lines of a readable /proc/cpuinfo, and those the pattern matches.
EnvLines == splitlines(proc_cpuinfo.text)
MatchingLines == {i \in 1..Len(EnvLines) : re_match(EnvLines[i]) # NoMatch}
Readable == proc_cpuinfo.state = "ok"
HasRevisionLine == Readable /\ MatchingLines # {}

\* Token of the first line, in text order, that matches the pattern.
FirstToken ==
    LET m == MatchingLines
    IN  re_match(EnvLines[CHOOSE i \in m : \A j \in m : i <= j])

\* The Raspberry Pi probe finds a model on this host.
PiFound == HasRevisionLine /\ FirstToken \in DOMAIN pi_revisions

BeagleboneSubstrings ==
    { <<"a", "r", "m", "v", "7", "l", "-", "w", "i", "t", "h", "-", "d", "e", "b", "i", "a", "n">>, <<"a", "r", "m", "v", "7", "l", "-", "w", "i", "t", "h", "-", "u", "b", "u", "n", "t", "u">>, <<"a", "r", "m", "v", "7", "l", "-", "w", "i", "t", "h", "-", "g", "l", "i", "b", "c", "2", ".", "4">> }
DescriptorMatches == \E s \in BeagleboneSubstrings : contains(lower(plat), s)

LibraryReportsMinnowboard == mraa.installed /\ mraa.name = <<"M", "i", "n", "n", "o", "w", "B", "o", "a", "r", "d", " ", "M", "A", "X">>

\* pi_version has returned to platform_detect.
PiVersionReturned == pc \in {"pi", "beaglebone", "minnowboard"} \/ (pc = "done" /\ exc = "none")

\* pi_version has returned None and platform_detect has gone past line 41.
PiAbstained == revision # NoMatch /\ pi = None /\ pc \in {"beaglebone", "minnowboard", "done"}

Returned == pc = "done" /\ exc = "none"

\* -------------------------------------------------------------------- C1
\* C1: every call of platform_detect ends by returning UNKNOWN, RASPBERRY_PI,
\* BEAGLEBONE_BLACK or MINNOWBOARD and never by a raised error, whatever the
\* host: cpuinfo missing or unreadable, no Revision line, unknown revision,
\* mraa not installed.
C1_TotalNonFailing ==
    pc = "done" =>
        /\ exc = "none"
        /\ result \in {UNKNOWN, RASPBERRY_PI, BEAGLEBONE_BLACK, MINNOWBOARD}

C3_CaseInsensitiveLookup ==
    (PiVersionReturned /\ revision # NoMatch /\ lower(revision) \in DOMAIN pi_revisions)
        => pi = pi_revisions[lower(revision)]

\* -------------------------------------------------------------------- C4
\* C4: when cpuinfo is readable and no line matches the Revision pattern,
\* pi_version returns None to its caller and no error escapes it.
C4_NoRevisionLineAbstains ==
    (Readable /\ ~HasRevisionLine /\ pc = "done")
        => (exc = "none" /\ pi = None /\ Len(probed) >= 2)

\* -------------------------------------------------------------------- C5
\* C5: when the token pi_revision extracted is not a key of the table,
\* pi_version returns None without raising and platform_detect goes on to
\* the BeagleBone check.
C5_UnknownRevisionAbstains ==
    (revision # NoMatch /\ revision \notin DOMAIN pi_revisions
        /\ pc \in {"pi", "beaglebone", "minnowboard", "done"})
        => /\ pi = None
           /\ exc = "none"
           /\ (pc = "done" => result # RASPBERRY_PI)
           /\ (pc \in {"minnowboard", "done"}
                  => (Len(probed) >= 2 /\ probed[2] = "beaglebone"))

C5_Witness ==
    /\ revision # NoMatch
    /\ revision \notin DOMAIN pi_revisions
    /\ pc = "done"
    /\ pi = None
    /\ probed[2] = "beaglebone"

\* -------------------------------------------------------------------- C6
\* C6: once the Pi probe has abstained, platform_detect returns
\* BEAGLEBONE_BLACK if and only if the lower-cased descriptor contains
\* 'armv7l-with-debian', 'armv7l-with-ubuntu' or 'armv7l-with-glibc2.4';
\* 'Linux-5.4.0-armv7l-with-debian-10.3' matches and
\* 'Linux-5.4.0-x86_64-with-glibc2.31' does not.
C6_BeagleboneIffSubstring ==
    (PiAbstained /\ pc = "done") =>
        /\ (result = BEAGLEBONE_BLACK) = DescriptorMatches
        /\ (plat = <<"L", "i", "n", "u", "x", "-", "5", ".", "4", ".", "0", "-", "a", "r", "m", "v", "7", "l", "-", "w", "i", "t", "h", "-", "d", "e", "b", "i", "a", "n", "-", "1", "0", ".", "3">> => result = BEAGLEBONE_BLACK)
        /\ (plat = <<"L", "i", "n", "u", "x", "-", "5", ".", "4", ".", "0", "-", "x", "8", "6", "_", "6", "4", "-", "w", "i", "t", "h", "-", "g", "l", "i", "b", "c", "2", ".", "3", "1">> => result # BEAGLEBONE_BLACK)

\* a descriptor that matches only once it is lower-cased
C6_Witness ==
    /\ PiAbstained
    /\ pc = "done"
    /\ result = BEAGLEBONE_BLACK
    /\ \A s \in BeagleboneSubstrings : ~contains(plat, s)

\* -------------------------------------------------------------------- C7
\* C7: once the Pi and BeagleBone probes have abstained, platform_detect
\* returns MINNOWBOARD if and only if mraa is installed and reports exactly
\* 'MinnowBoard MAX'; otherwise (library absent, or any other name) it
\* returns UNKNOWN and raises nothing.
C7_VendorProbeExactOrAbstain ==
    (PiAbstained /\ ~DescriptorMatches /\ pc = "done") =>
        /\ exc = "none"
        /\ (result = MINNOWBOARD) = LibraryReportsMinnowboard
        /\ (~LibraryReportsMinnowboard => result = UNKNOWN)

C7_Witness ==
    /\ PiAbstained
    /\ ~DescriptorMatches
    /\ ~mraa.installed
    /\ pc = "done"
    /\ probed = <<"raspberry_pi", "beaglebone", "minnowboard">>
    /\ result = UNKNOWN

\* -------------------------------------------------------------------- C8
\* C8: a failure of the Pi probe (cpuinfo cannot be opened, or has no
\* Revision line) does not block the next probes: the descriptor check is
\* still evaluated, and a matching descriptor gives BEAGLEBONE_BLACK.
C8_FailedProbeDoesNotBlock ==
    (pc = "done" /\ (proc_cpuinfo.state = "missing" \/ (Readable /\ ~HasRevisionLine)))
        => /\ Len(probed) >= 2
           /\ probed[2] = "beaglebone"
           /\ (DescriptorMatches => result = BEAGLEBONE_BLACK)

\* -------------------------------------------------------------------- C9
\* C9: once control has left pi_revision - by a return, by the 'could not
\* determine revision' error or by an error during the read - the handle it
\* opened is closed.
C9_HandleReleased ==
    pc \in {"lookup", "pi", "beaglebone", "minnowboard", "done"} =>
        /\ infile # "open"
        /\ (proc_cpuinfo.state # "missing" => infile = "closed")

C9_Witness ==
    /\ pc = "done"
    /\ exc = "RuntimeError"
    /\ Len(lines) >= 1
    /\ infile = "closed"

\* -------------------------------------------------------------------- C10
\* C10: pi_revision returns the token of the first line that matches the
\* Revision pattern and ignores later matching lines, and pi_version looks
\* up that token only.
C10_FirstRevisionLineOnly ==
    /\ (revision # NoMatch => (HasRevisionLine /\ revision = FirstToken))
    /\ ((revision # NoMatch /\ pc \in {"pi", "beaglebone", "minnowboard", "done"})
           => pi = get(pi_revisions, FirstToken, None))

\* two Revision lines, the first unknown to the table, the second known
C10_Witness ==
    /\ pc = "done"
    /\ Cardinality(MatchingLines) >= 2
    /\ FirstToken \notin DOMAIN pi_revisions
    /\ \E i \in MatchingLines : re_match(EnvLines[i]) \in DOMAIN pi_revisions
    /\ revision = FirstToken
    /\ pi = None

====
